---- MODULE Spec2Model ----
(***************************************************************************)
(* goldenMagic: the line-based JSON text editor of internal/jsonops.       *)
(*                                                                         *)
(* A Go string is a sequence of one-character strings; a document is the   *)
(* sequence of its lines (strings.Split(s, "\n") / strings.Join(l, "\n")   *)
(* are inverse to each other on it).  Go indexes lines from 0 and uses -1  *)
(* for "not found"; here lines are indexed from 1 and 0 is "not found".    *)
(***************************************************************************)
EXTENDS Integers, Sequences, FiniteSets, TLC

VARIABLES doc, res, calls

\* a batch over files: the file system, the request, the index of the file in
\* work, the position in the loop body, its local variables, the results
VARIABLES fs, req, idx, pc, cur, results

vars == <<doc, res, calls, fs, req, idx, pc, cur, results>>

(***************************************************************************)
(* package strings                                                         *)
(***************************************************************************)
Q == "\""

IsSpace(c) == c \in {" ", "\t", "\r"}

IsDigit(c) == c \in {"0", "1", "2", "3", "4", "5", "6", "7", "8", "9"}

Sp(n) == [i \in 1..n |-> " "]

Quoted(key) == <<Q>> \o key \o <<Q>>

\* strings.Contains(s, sub)
Contains(s, sub) ==
    \E i \in 1..(Len(s) - Len(sub) + 1) : SubSeq(s, i, i + Len(sub) - 1) = sub

\* strings.Index(s, c) for a one-character c; 0 when absent
IndexOf(s, c) ==
    IF \E i \in 1..Len(s) : s[i] = c
    THEN CHOOSE i \in 1..Len(s) : s[i] = c /\ \A j \in 1..(i - 1) : s[j] # c
    ELSE 0

\* strings.Count(s, c) for a one-character c
Count(s, c) == Cardinality({i \in 1..Len(s) : s[i] = c})

\* strings.HasPrefix(s, p)
HasPrefix(s, p) == Len(s) >= Len(p) /\ SubSeq(s, 1, Len(p)) = p

\* strings.HasSuffix(s, p)
HasSuffix(s, p) == Len(s) >= Len(p) /\ SubSeq(s, Len(s) - Len(p) + 1, Len(s)) = p

\* strings.TrimLeft(s, " \t\r") as used by TrimSpace
TrimLeftSpace(s) ==
    IF \A i \in 1..Len(s) : IsSpace(s[i]) THEN <<>>
    ELSE SubSeq(s, CHOOSE i \in 1..Len(s) :
                      ~IsSpace(s[i]) /\ \A j \in 1..(i - 1) : IsSpace(s[j]), Len(s))

\* strings.TrimRight(s, cutset)
TrimRight(s, cutset) ==
    IF \A i \in 1..Len(s) : s[i] \in cutset THEN <<>>
    ELSE SubSeq(s, 1, CHOOSE i \in 1..Len(s) :
                      s[i] \notin cutset /\ \A j \in (i + 1)..Len(s) : s[j] \in cutset)

\* strings.TrimSpace(s)
TrimSpace(s) == TrimRight(TrimLeftSpace(s), {" ", "\t", "\r"})

\* regexp `"key"\s*:` (regexp.QuoteMeta makes the key literal) matched in line
MatchesKeyColon(line, key) ==
    \E i \in 1..(Len(line) - Len(key) - 1) :
        /\ SubSeq(line, i, i + Len(key) + 1) = Quoted(key)
        /\ \E j \in (i + Len(key) + 2)..Len(line) :
              /\ line[j] = ":"
              /\ \A m \in (i + Len(key) + 2)..(j - 1) : IsSpace(line[m])

\* the splice with its tail taken one line too early: line n is written twice
SpliceFromN(lines, n, block) ==
    SubSeq(lines, 1, n) \o block \o SubSeq(lines, n, Len(lines))

\* lines[:n] ++ block ++ lines[n:]  (append(result, lines[:n]...) and so on)
Splice(lines, n, block) ==
    SubSeq(lines, 1, n) \o block \o SubSeq(lines, n + 1, Len(lines))

(***************************************************************************)
(* Line scanner: operation_replace.go                                      *)
(***************************************************************************)
\* getIndentation
getIndentation(line) ==
    IF \A i \in 1..Len(line) : line[i] \in {" ", "\t"} THEN line
    ELSE SubSeq(line, 1, (CHOOSE i \in 1..Len(line) :
                    line[i] \notin {" ", "\t"}
                    /\ \A j \in 1..(i - 1) : line[j] \in {" ", "\t"}) - 1)

\* detectIndentationForObject
detectIndentationForObject(lines, objectStartLine) ==
    LET RECURSIVE Look(_)
        Look(i) ==
            IF i > Len(lines) THEN getIndentation(lines[objectStartLine]) \o Sp(2)
            ELSE LET trimmed == TrimSpace(lines[i])
                 IN  IF trimmed = <<>> THEN Look(i + 1)
                     ELSE IF Contains(trimmed, <<":">>) /\ Contains(trimmed, <<Q>>)
                          THEN getIndentation(lines[i])
                     ELSE IF Contains(trimmed, <<"}">>)
                          THEN getIndentation(lines[objectStartLine]) \o Sp(2)
                     ELSE Look(i + 1)
    IN  Look(objectStartLine + 1)

\* detectIndentationForArray
detectIndentationForArray(lines, arrayStartLine) ==
    LET RECURSIVE Look(_)
        Look(i) ==
            IF i > Len(lines) THEN getIndentation(lines[arrayStartLine]) \o Sp(2)
            ELSE LET trimmed == TrimSpace(lines[i])
                 IN  IF trimmed = <<>> THEN Look(i + 1)
                     ELSE IF ~HasPrefix(trimmed, <<"]">>)
                          THEN getIndentation(lines[i])
                     ELSE IF Contains(trimmed, <<"]">>)
                          THEN getIndentation(lines[arrayStartLine]) \o Sp(2)
                     ELSE Look(i + 1)
    IN  Look(arrayStartLine + 1)

\* the inner loop of findMatchingBracket over the characters of one line: the
\* scan state [depth, inString, escaped] after it, with hit set when the depth
\* came back to zero on the line
RECURSIVE scanLine(_, _, _, _, _)
scanLine(line, j, st, openChar, closeChar) ==
    IF j > Len(line) THEN st
    ELSE LET char == line[j]
         IN  IF st.escaped
             THEN scanLine(line, j + 1, [st EXCEPT !.escaped = FALSE], openChar, closeChar)
             ELSE IF char = "\\" /\ st.inString
             THEN scanLine(line, j + 1, [st EXCEPT !.escaped = TRUE], openChar, closeChar)
             ELSE IF char = Q
             THEN scanLine(line, j + 1, [st EXCEPT !.inString = ~@], openChar, closeChar)
             ELSE IF ~st.inString /\ char = openChar
             THEN scanLine(line, j + 1, [st EXCEPT !.depth = @ + 1], openChar, closeChar)
             ELSE IF ~st.inString /\ char = closeChar
             THEN IF st.depth - 1 = 0 THEN [st EXCEPT !.depth = 0, !.hit = TRUE]
                  ELSE scanLine(line, j + 1, [st EXCEPT !.depth = @ - 1],
                                openChar, closeChar)
             ELSE scanLine(line, j + 1, st, openChar, closeChar)

\* a matching that counts the brackets of whole lines, strings included
findMatchingBracketPlain(lines, startIndex, openChar, closeChar) ==
    LET RECURSIVE Scan(_, _)
        Scan(i, depth) ==
            IF i > Len(lines) THEN 0
            ELSE LET d == depth + Count(lines[i], openChar) - Count(lines[i], closeChar)
                 IN  IF d = 0 /\ Count(lines[i], closeChar) > 0 THEN i ELSE Scan(i + 1, d)
    IN  Scan(startIndex, 0)

\* findMatchingBracket
findMatchingBracket(lines, startIndex, openChar, closeChar) ==
    LET RECURSIVE Scan(_, _)
        Scan(i, st) ==
            IF i > Len(lines) THEN 0
            ELSE LET after == scanLine(lines[i], 1, st, openChar, closeChar)
                 IN  IF after.hit THEN i ELSE Scan(i + 1, after)
    IN  Scan(startIndex,
             [depth |-> 0, inString |-> FALSE, escaped |-> FALSE, hit |-> FALSE])

\* findEndOfValue
findEndOfValue(lines, startIndex) ==
    LET startLine  == TrimSpace(lines[startIndex])
        colonIndex == IndexOf(startLine, ":")
        valueStart == TrimSpace(SubSeq(startLine, colonIndex + 1, Len(startLine)))
    IN  IF ~Contains(startLine, <<":">>) THEN startIndex
        ELSE IF \/ HasPrefix(valueStart, <<Q>>)
                \/ HasPrefix(valueStart, <<"t", "r", "u", "e">>)
                \/ HasPrefix(valueStart, <<"f", "a", "l", "s", "e">>)
                \/ HasPrefix(valueStart, <<"n", "u", "l", "l">>)
                \/ (Len(valueStart) > 0 /\ IsDigit(valueStart[1]))
             THEN startIndex
        ELSE IF HasPrefix(valueStart, <<"[">>)
             THEN findMatchingBracket(lines, startIndex, "[", "]")
        ELSE IF HasPrefix(valueStart, <<"{">>)
             THEN findMatchingBracket(lines, startIndex, "{", "}")
        ELSE startIndex

\* isArrayOfObjects
isArrayOfObjects(lines, arrayStartLine) ==
    LET RECURSIVE Walk(_, _)
        Walk(i, bracketDepth) ==
            IF i > Len(lines) THEN FALSE
            ELSE LET line == TrimSpace(lines[i])
                     d    == bracketDepth + Count(line, "[") - Count(line, "]")
                 IN  IF d > 0 /\ Contains(line, <<"{">>) THEN TRUE
                     ELSE IF d = 0 /\ i > arrayStartLine THEN FALSE
                     ELSE Walk(i + 1, d)
    IN  Walk(arrayStartLine, 0)

(***************************************************************************)
(* Key existence checker: operation_replace.go                             *)
(***************************************************************************)
\* the test both duplicate checks apply to a line
LineNamesKey(line, key) == Contains(line, Quoted(key)) /\ Contains(line, <<":">>)

\* keyExistsInObject
keyExistsInObject(lines, key, startLine, targetDepth) ==
    LET RECURSIVE Walk(_, _)
        Walk(i, currentDepth) ==
            IF i > Len(lines) THEN FALSE
            ELSE LET line == TrimSpace(lines[i])
                     d    == currentDepth + Count(line, "{") - Count(line, "}")
                 IN  IF d = targetDepth /\ LineNamesKey(line, key) THEN TRUE
                     ELSE IF d < targetDepth THEN FALSE
                     ELSE Walk(i + 1, d)
    IN  Walk(startLine, 0)

\* keyExistsInArrayObjects
keyExistsInArrayObjects(lines, key, arrayStartLine) ==
    LET RECURSIVE Walk(_, _, _, _)
        Walk(i, bracketDepth, braceDepth, inArray) ==
            IF i > Len(lines) THEN FALSE
            ELSE LET line == TrimSpace(lines[i])
                     bk   == bracketDepth + Count(line, "[") - Count(line, "]")
                     bc   == braceDepth + Count(line, "{") - Count(line, "}")
                     inA  == inArray \/ bk > 0
                 IN  IF inA /\ bc > 0 /\ LineNamesKey(line, key) THEN TRUE
                     ELSE IF inA /\ bk = 0 THEN FALSE
                     ELSE Walk(i + 1, bk, bc, inA)
    IN  Walk(arrayStartLine, 0, 0, FALSE)

(***************************************************************************)
(* encoding/json.  A decoded value (Go's `any`) is [t, s, kids]: a number  *)
(* or string with its text s, or an object with its members kids in the    *)
(* marshalled (sorted) order.                                              *)
(***************************************************************************)
Num(s) == [t |-> "num", s |-> s, kids |-> <<>>]

Str(s) == [t |-> "str", s |-> s, kids |-> <<>>]

Obj(kids) == [t |-> "obj", s |-> <<>>, kids |-> kids]

\* the string encoder: a quote or a backslash gets a backslash before it
RECURSIVE EscapeString(_)
EscapeString(s) ==
    IF s = <<>> THEN <<>>
    ELSE (IF Head(s) \in {Q, "\\"} THEN <<"\\", Head(s)>> ELSE <<Head(s)>>)
         \o EscapeString(Tail(s))

\* json.Marshal(value): the compact text, on one line
RECURSIVE Marshal(_)
Marshal(v) ==
    IF v.t = "num" THEN v.s
    ELSE IF v.t = "str" THEN Quoted(EscapeString(v.s))
    ELSE LET RECURSIVE Members(_)
             Members(j) ==
                 IF j > Len(v.kids) THEN <<>>
                 ELSE Quoted(EscapeString(v.kids[j].k)) \o <<":">> \o Marshal(v.kids[j].v)
                      \o (IF j < Len(v.kids) THEN <<",">> ELSE <<>>) \o Members(j + 1)
         IN  <<"{">> \o Members(1) \o <<"}">>

\* json.MarshalIndent(value, "", "  "): the lines of the indented text of a
\* value that starts at nesting depth d
RECURSIVE MarshalIndent(_, _)
MarshalIndent(v, d) ==
    IF v.t = "num" THEN <<v.s>>
    ELSE IF v.t = "str" THEN <<Quoted(EscapeString(v.s))>>
    ELSE IF v.kids = <<>> THEN << <<"{", "}">> >>
    ELSE LET RECURSIVE Members(_)
             Members(j) ==
                 IF j > Len(v.kids) THEN <<>>
                 ELSE LET sub  == MarshalIndent(v.kids[j].v, d + 1)
                          head == Sp(2 * (d + 1)) \o Quoted(EscapeString(v.kids[j].k))
                                  \o <<":", " ">> \o sub[1]
                          blk  == <<head>> \o Tail(sub)
                      IN  (IF j < Len(v.kids)
                           THEN [blk EXCEPT ![Len(blk)] = @ \o <<",">>]
                           ELSE blk) \o Members(j + 1)
         IN  << <<"{">> >> \o Members(1) \o << Sp(2 * d) \o <<"}">> >>

(***************************************************************************)
(* Insertion engine: operation_add_to.go.  A call returns [out, err]: the  *)
(* returned text as lines and the error ("nil" for none, "panic" for a     *)
(* runtime panic, which returns nothing).                                  *)
(***************************************************************************)
Ret(out, err) == [out |-> out, err |-> err]

\* the line both object insertions and the array-of-objects insertion build
newPropertyLine(indent, key, valueJSON) ==
    indent \o Quoted(key) \o <<":", " ">> \o valueJSON \o <<",">>

\* insertAtRoot
insertAtRoot(lines, key, valueJSON) ==
    LET opens == {i \in 1..Len(lines) : Contains(TrimSpace(lines[i]), <<"{">>)}
        openBraceIndex == IF opens = {} THEN 0
                          ELSE CHOOSE i \in opens : \A j \in opens : i <= j
    IN  IF keyExistsInObject(lines, key, 1, 1)
        THEN Ret(lines, "already exists at root level")
        ELSE IF openBraceIndex = 0 THEN Ret(lines, "no opening brace found")
        ELSE Ret(Splice(lines, openBraceIndex,
                        <<newPropertyLine(detectIndentationForObject(lines, openBraceIndex),
                                          key, valueJSON)>>), "nil")

\* insertIntoObject
insertIntoObject(lines, objectLineIndex, key, valueJSON) ==
    LET later == {i \in (objectLineIndex + 1)..Len(lines) :
                     Contains(TrimSpace(lines[i]), <<"{">>)}
        at    == IF Contains(lines[objectLineIndex], <<"{">>) \/ later = {}
                 THEN objectLineIndex
                 ELSE CHOOSE i \in later : \A j \in later : i <= j
    IN  Ret(Splice(lines, at,
                   <<newPropertyLine(detectIndentationForObject(lines, at),
                                     key, valueJSON)>>), "nil")

\* insertIntoArrayValues
insertIntoArrayValues(lines, arrayLineIndex, valueJSON) ==
    LET later == {i \in (arrayLineIndex + 1)..Len(lines) :
                     Contains(TrimSpace(lines[i]), <<"[">>)}
        bracketLineIndex ==
                 IF Contains(lines[arrayLineIndex], <<"[">>) \/ later = {}
                 THEN arrayLineIndex
                 ELSE CHOOSE i \in later : \A j \in later : i <= j
    IN  Ret(Splice(lines, bracketLineIndex,
                   <<detectIndentationForArray(lines, bracketLineIndex)
                     \o valueJSON \o <<",">> >>), "nil")

\* the test of insertIntoArrayObjects that a line opens an object of the array
opensArrayObject(bracketDepth, braceDepth, trimmed) ==
    bracketDepth > 0 /\ Count(trimmed, "{") > 0 /\ Contains(trimmed, <<"{">>)

\* insertIntoArrayObjects: when the loop runs off the end, lines[i+1:] is out
\* of range and the call panics
insertIntoArrayObjects(lines, arrayLineIndex, key, valueJSON) ==
    LET RECURSIVE Walk(_, _, _, _)
        Walk(i, result, bracketDepth, braceDepth) ==
            IF i > Len(lines) THEN Ret(<<>>, "panic")
            ELSE IF i < arrayLineIndex
                 THEN Walk(i + 1, Append(result, lines[i]), bracketDepth, braceDepth)
            ELSE LET trimmed == TrimSpace(lines[i])
                     bk == bracketDepth + Count(trimmed, "[") - Count(trimmed, "]")
                     bc == braceDepth + Count(trimmed, "{") - Count(trimmed, "}")
                     r  == IF opensArrayObject(bk, bc, trimmed)
                           THEN result \o <<lines[i],
                                   newPropertyLine(detectIndentationForObject(lines, i),
                                                   key, valueJSON)>>
                           ELSE Append(result, lines[i])
                 IN  IF bk = 0 /\ i > arrayLineIndex
                     THEN Ret(r \o SubSeq(lines, i + 1, Len(lines)), "nil")
                     ELSE Walk(i + 1, r, bk, bc)
    IN  IF keyExistsInArrayObjects(lines, key, arrayLineIndex)
        THEN Ret(lines, "already exists in one or more array objects")
        ELSE Walk(1, <<>>, 0, 0)

\* the first line insertAtContextPath takes for the target
findTargetLine(lines, objectPath) ==
    LET hits == {i \in 1..Len(lines) :
                    Contains(lines[i], Quoted(objectPath)) /\ Contains(lines[i], <<":">>)}
    IN  IF hits = {} THEN 0 ELSE CHOOSE i \in hits : \A j \in hits : i <= j

\* insertAtContextPath
insertAtContextPath(lines, objectPath, key, valueJSON) ==
    LET targetLineIndex == findTargetLine(lines, objectPath)
        targetLine == TrimSpace(lines[targetLineIndex])
        colonIndex == IndexOf(targetLine, ":")
        valueStart == TrimSpace(SubSeq(targetLine, colonIndex + 1, Len(targetLine)))
    IN  IF targetLineIndex = 0 THEN Ret(lines, "path not found")
        ELSE IF colonIndex = 0 THEN Ret(lines, "invalid target line format")
        ELSE IF HasPrefix(valueStart, <<"[">>)
             THEN IF isArrayOfObjects(lines, targetLineIndex)
                  THEN insertIntoArrayObjects(lines, targetLineIndex, key, valueJSON)
                  ELSE insertIntoArrayValues(lines, targetLineIndex, valueJSON)
        ELSE IF HasPrefix(valueStart, <<"{">>)
             THEN IF keyExistsInObject(lines, key, targetLineIndex, 2)
                  THEN Ret(lines, "already exists in target object")
                  ELSE insertIntoObject(lines, targetLineIndex, key, valueJSON)
        ELSE Ret(lines, "not an object or array")

\* InsertJSONKeyValue
InsertJSONKeyValue(lines, objectPath, key, value) ==
    IF objectPath = <<>>
    THEN insertAtRoot(lines, key, Marshal(value))
    ELSE insertAtContextPath(lines, objectPath, key, Marshal(value))

(***************************************************************************)
(* After-insertion engine: operation_add_to.go                             *)
(***************************************************************************)
\* findContainingObjectStart
findContainingObjectStart(lines, targetLineIndex) ==
    LET RECURSIVE Back(_, _)
        Back(i, braceDepth) ==
            IF i < 1 THEN 0
            ELSE LET line == TrimSpace(lines[i])
                     openBraces == Count(line, "{")
                     d == braceDepth + openBraces - Count(line, "}")
                 IN  IF openBraces > 0 /\ d > 0 THEN i ELSE Back(i - 1, d)
    IN  Back(targetLineIndex - 1, 0)

\* checkIfKeyExists
checkIfKeyExists(lines, targetKey, newObjectKey) ==
    \E i \in 1..Len(lines) :
        /\ MatchesKeyColon(lines[i], targetKey)
        /\ LET objectStartLine == findContainingObjectStart(lines, i)
               objectEndLine   == findMatchingBracket(lines, objectStartLine, "{", "}")
           IN  /\ objectStartLine # 0
               /\ objectEndLine # 0
               /\ \E j \in (objectStartLine + 1)..(objectEndLine - 1) :
                     /\ getIndentation(lines[j]) = getIndentation(lines[i])
                     /\ MatchesKeyColon(lines[j], newObjectKey)

\* the lines of the new block for an occurrence indented by indentation
newObjLinesFor(indentation, newObjectKey, formatted) ==
    << indentation \o Quoted(newObjectKey) \o <<":", " ">> \o formatted[1] >>
    \o [j \in 1..(Len(formatted) - 1) |-> indentation \o Sp(2) \o formatted[j + 1]]

\* one turn of the loop of InsertItemAfter, for the occurrence on targetLineIndex
insertAfterOccurrence(result, targetLineIndex, newObjectKey, formatted) ==
    LET insertIndex == findEndOfValue(result, targetLineIndex)
        newObjLines == newObjLinesFor(getIndentation(result[targetLineIndex]),
                                      newObjectKey, formatted)
        commaed == IF /\ insertIndex < Len(result)
                      /\ ~HasSuffix(TrimSpace(result[insertIndex]), <<",">>)
                   THEN [result EXCEPT ![insertIndex] = TrimRight(@, {" ", "\t"}) \o <<",">>]
                   ELSE result
        lastNewLine == newObjLines[Len(newObjLines)]
        blanks == {n \in (insertIndex + 1)..Len(commaed) :
                      \A m \in (insertIndex + 1)..n : TrimSpace(commaed[m]) = <<>>}
        nextNonEmptyIndex == insertIndex + 1 + Cardinality(blanks)
        block == IF /\ insertIndex < Len(commaed)
                    /\ ~HasSuffix(TrimSpace(lastNewLine), <<",">>)
                    /\ nextNonEmptyIndex <= Len(commaed)
                    /\ ~Contains(TrimSpace(commaed[nextNonEmptyIndex]), <<"}">>)
                 THEN [newObjLines EXCEPT ![Len(newObjLines)] = @ \o <<",">>]
                 ELSE newObjLines
    IN  IF insertIndex = 0 THEN result ELSE Splice(commaed, insertIndex, block)

\* the lines InsertItemAfter collects as occurrences of the target key
targetLineIndices(lines, targetKey) ==
    {i \in 1..Len(lines) :
        Contains(lines[i], Quoted(targetKey)) /\ Contains(lines[i], <<":">>)}

\* InsertItemAfter; newObj is what json.Unmarshal makes of newObjectJSON, of
\* type "invalid" when it returns an error
InsertItemAfter(lines, targetKey, newObjectKey, newObj) ==
    LET occ == targetLineIndices(lines, targetKey)
        RECURSIVE Loop(_, _)
        Loop(result, left) ==
            IF left = {} THEN result
            ELSE LET t == CHOOSE i \in left : \A j \in left : j <= i
                 IN  Loop(insertAfterOccurrence(result, t, newObjectKey,
                                                MarshalIndent(newObj, 0)),
                          left \ {t})
    IN  IF checkIfKeyExists(lines, targetKey, newObjectKey)
        THEN Ret(<<>>, "object already exists")
        ELSE IF occ = {} THEN Ret(<<>>, "target key not found")
        ELSE IF newObj.t = "invalid" THEN Ret(<<>>, "invalid JSON for new object")
        ELSE Ret(Loop(lines, occ), "nil")

(***************************************************************************)
(* Key rename engine: operation_replace.go.  The content of a file is the  *)
(* text of its lines joined by line feeds.                                 *)
(***************************************************************************)
LF == "\n"

\* strings.Join(lines, "\n")
RECURSIVE Join(_)
Join(lines) ==
    IF lines = <<>> THEN <<>>
    ELSE IF Len(lines) = 1 THEN lines[1]
    ELSE lines[1] \o <<LF>> \o Join(Tail(lines))

\* strings.Split(text, "\n")
RECURSIVE Split(_)
Split(text) ==
    LET n == IndexOf(text, LF)
    IN  IF n = 0 THEN <<text>>
        ELSE <<SubSeq(text, 1, n - 1)>> \o Split(SubSeq(text, n + 1, Len(text)))

\* \s of package regexp
IsRegexSpace(c) == c \in {" ", "\t", LF, "\f", "\r"}

\* the pattern "(oldKey)" alone, without \s*: after it
matchQuotedAt(content, i, oldKey) ==
    LET quoted == Quoted(oldKey)
        j      == i + Len(quoted)
    IN  IF j - 1 <= Len(content) /\ SubSeq(content, i, j - 1) = quoted
        THEN j - 1 ELSE 0

\* the pattern "(oldKey)"\s*: matched at position i of content: the position
\* of the colon that ends the match, 0 when there is no match at i
matchAt(content, i, oldKey) ==
    LET quoted == Quoted(oldKey)
        j      == i + Len(quoted)
        spaces == {n \in j..Len(content) : \A m \in j..n : IsRegexSpace(content[m])}
        colon  == j + Cardinality(spaces)
    IN  IF /\ j - 1 <= Len(content)
           /\ SubSeq(content, i, j - 1) = quoted
           /\ colon <= Len(content)
           /\ content[colon] = ":"
        THEN colon ELSE 0

\* a replacement that writes the new key and the colon only
ReplaceTight(s, old, new) == new \o <<":">>

\* strings.Replace(s, old, new, 1)
Replace1(s, old, new) ==
    LET at == {i \in 1..(Len(s) - Len(old) + 1) : SubSeq(s, i, i + Len(old) - 1) = old}
    IN  IF at = {} THEN s
        ELSE LET i == CHOOSE a \in at : \A b \in at : a <= b
             IN  SubSeq(s, 1, i - 1) \o new \o SubSeq(s, i + Len(old), Len(s))

\* replaceKeysInText: regex.ReplaceAllStringFunc visits the matches from left
\* to right, none overlapping an earlier one
replaceKeysInText(content, oldKey, newKey) ==
    LET starts == {i \in 1..Len(content) : matchAt(content, i, oldKey) # 0}
        RECURSIVE Pass(_, _, _)
        Pass(from, result, replacementCount) ==
            LET ahead == {i \in starts : i >= from}
            IN  IF ahead = {}
                THEN [text  |-> result \o SubSeq(content, from, Len(content)),
                      count |-> replacementCount]
                ELSE LET i     == CHOOSE a \in ahead : \A b \in ahead : a <= b
                         colon == matchAt(content, i, oldKey)
                         match == SubSeq(content, i, colon)
                     IN  Pass(colon + 1,
                              result \o SubSeq(content, from, i - 1)
                                     \o Replace1(match, Quoted(oldKey), Quoted(newKey)),
                              replacementCount + 1)
    IN  Pass(1, <<>>, 0)

\* ReplaceKeyInFiles, for one file: the validation of the request, the rename,
\* and what it reports; a rename that replaced nothing is an error
ReplaceKeyInFile(lines, oldKey, newKey) ==
    LET r == replaceKeysInText(Join(lines), oldKey, newKey)
    IN  IF oldKey = <<>> THEN [out |-> <<>>, err |-> "old key cannot be empty", count |-> 0]
        ELSE IF newKey = <<>> THEN [out |-> <<>>, err |-> "new key cannot be empty", count |-> 0]
        ELSE IF oldKey = newKey
        THEN [out |-> <<>>, err |-> "old key and new key cannot be the same", count |-> 0]
        ELSE IF r.count = 0 THEN [out |-> <<>>, err |-> "no keys found", count |-> 0]
        ELSE [out |-> Split(r.text), err |-> "nil", count |-> r.count]

(***************************************************************************)
(* Deep key search: fileops/operations.go.  json.Unmarshal into `any` is   *)
(* a parser of the JSON grammar: it returns [ok, v, next], the decoded     *)
(* value v and the position after it, or a failure.  An object decodes     *)
(* into a map, so of two members of one name the later one stays; an array *)
(* decodes into the sequence of its elements.  The texts of the documents  *)
(* hold no \u escape, which is left out of the string grammar.             *)
(***************************************************************************)
IsJSONSpace(c) == c \in {" ", "\t", LF, "\r"}

Arr(kids) == [t |-> "arr", s |-> <<>>, kids |-> kids]

Lit(s) == [t |-> "lit", s |-> s, kids |-> <<>>]

Failed == [ok |-> FALSE, v |-> Lit(<<>>), next |-> 0]

Parsed(v, next) == [ok |-> TRUE, v |-> v, next |-> next]

\* the first position from i on that holds no white space
RECURSIVE skipSpace(_, _)
skipSpace(text, i) ==
    IF i <= Len(text) /\ IsJSONSpace(text[i]) THEN skipSpace(text, i + 1) ELSE i

\* the first position from i on that holds no digit
RECURSIVE digitsEnd(_, _)
digitsEnd(text, i) ==
    IF i <= Len(text) /\ IsDigit(text[i]) THEN digitsEnd(text, i + 1) ELSE i

\* the character a one-letter escape stands for
unescape(c) ==
    IF c = "n" THEN LF
    ELSE IF c = "t" THEN "\t"
    ELSE IF c = "r" THEN "\r"
    ELSE IF c = "f" THEN "\f"
    ELSE IF c = "b" THEN "\\b"
    ELSE c

\* a string literal from the position after its opening quote
RECURSIVE scanString(_, _, _)
scanString(text, i, acc) ==
    IF i > Len(text) THEN Failed
    ELSE IF text[i] = Q THEN Parsed(Str(acc), i + 1)
    ELSE IF text[i] = "\\"
         THEN IF i + 1 <= Len(text)
                 /\ text[i + 1] \in {Q, "\\", "/", "b", "f", "n", "r", "t"}
              THEN scanString(text, i + 2, Append(acc, unescape(text[i + 1])))
              ELSE Failed
    ELSE IF text[i] \in {LF, "\t", "\r", "\f"} THEN Failed
    ELSE scanString(text, i + 1, Append(acc, text[i]))

\* a number literal at position i
scanNumber(text, i) ==
    LET At(p, cs)  == p <= Len(text) /\ text[p] \in cs
        intStart   == IF text[i] = "-" THEN i + 1 ELSE i
        intEnd     == digitsEnd(text, intStart)
        fracEnd    == IF At(intEnd, {"."}) THEN digitsEnd(text, intEnd + 1) ELSE intEnd
        expStart   == IF At(fracEnd + 1, {"+", "-"}) THEN fracEnd + 2 ELSE fracEnd + 1
        expEnd     == IF At(fracEnd, {"e", "E"}) THEN digitsEnd(text, expStart) ELSE fracEnd
    IN  IF /\ intEnd > intStart
           /\ (text[intStart] = "0" => intEnd = intStart + 1)
           /\ (At(intEnd, {"."}) => fracEnd > intEnd + 1)
           /\ (At(fracEnd, {"e", "E"}) => expEnd > expStart)
        THEN Parsed(Num(SubSeq(text, i, expEnd - 1)), expEnd)
        ELSE Failed

\* the word stands at position i
literalAt(text, i, word) ==
    i + Len(word) - 1 <= Len(text) /\ SubSeq(text, i, i + Len(word) - 1) = word

\* m[key] = value on the members of a map
setMember(kids, key, value) ==
    LET Other(e) == e.k # key
    IN  Append(SelectSeq(kids, Other), [k |-> key, v |-> value])

RECURSIVE parseValue(_, _)
RECURSIVE parseMembers(_, _, _)
RECURSIVE parseElements(_, _, _)

\* a value, after white space, from position from on
parseValue(text, from) ==
    LET i == skipSpace(text, from)
    IN  IF i > Len(text) THEN Failed
        ELSE IF text[i] = "{"
             THEN LET j == skipSpace(text, i + 1)
                  IN  IF j <= Len(text) /\ text[j] = "}" THEN Parsed(Obj(<<>>), j + 1)
                      ELSE parseMembers(text, j, <<>>)
        ELSE IF text[i] = "["
             THEN LET j == skipSpace(text, i + 1)
                  IN  IF j <= Len(text) /\ text[j] = "]" THEN Parsed(Arr(<<>>), j + 1)
                      ELSE parseElements(text, j, <<>>)
        ELSE IF text[i] = Q THEN scanString(text, i + 1, <<>>)
        ELSE IF text[i] = "-" \/ IsDigit(text[i]) THEN scanNumber(text, i)
        ELSE IF literalAt(text, i, <<"t", "r", "u", "e">>)
             THEN Parsed(Lit(<<"t", "r", "u", "e">>), i + 4)
        ELSE IF literalAt(text, i, <<"f", "a", "l", "s", "e">>)
             THEN Parsed(Lit(<<"f", "a", "l", "s", "e">>), i + 5)
        ELSE IF literalAt(text, i, <<"n", "u", "l", "l">>)
             THEN Parsed(Lit(<<"n", "u", "l", "l">>), i + 4)
        ELSE Failed

\* the members of an object from the position of a member's name on
parseMembers(text, i, kids) ==
    IF i > Len(text) \/ text[i] # Q THEN Failed
    ELSE LET name  == scanString(text, i + 1, <<>>)
             colon == skipSpace(text, name.next)
             val   == parseValue(text, colon + 1)
             after == skipSpace(text, val.next)
         IN  IF ~name.ok THEN Failed
             ELSE IF colon > Len(text) \/ text[colon] # ":" THEN Failed
             ELSE IF ~val.ok THEN Failed
             ELSE IF after > Len(text) THEN Failed
             ELSE IF text[after] = "}"
                  THEN Parsed(Obj(setMember(kids, name.v.s, val.v)), after + 1)
             ELSE IF text[after] = ","
                  THEN parseMembers(text, skipSpace(text, after + 1),
                                    setMember(kids, name.v.s, val.v))
             ELSE Failed

\* the elements of an array from the position of an element on
parseElements(text, i, kids) ==
    LET val   == parseValue(text, i)
        after == skipSpace(text, val.next)
    IN  IF ~val.ok THEN Failed
        ELSE IF after > Len(text) THEN Failed
        ELSE IF text[after] = "]" THEN Parsed(Arr(Append(kids, val.v)), after + 1)
        ELSE IF text[after] = ","
             THEN parseElements(text, skipSpace(text, after + 1), Append(kids, val.v))
        ELSE Failed

\* json.Unmarshal(content, &data): one value and nothing but white space after it
Unmarshal(content) ==
    LET r == parseValue(content, 1)
    IN  IF r.ok /\ skipSpace(content, r.next) > Len(content) THEN r ELSE Failed

\* a search that looks into objects only
RECURSIVE containsKeyInObjects(_, _)
containsKeyInObjects(data, searchKey) ==
    /\ data.t = "obj"
    /\ \/ \E j \in 1..Len(data.kids) : data.kids[j].k = searchKey
       \/ \E j \in 1..Len(data.kids) : containsKeyInObjects(data.kids[j].v, searchKey)

\* containsKeyRecursive
RECURSIVE containsKeyRecursive(_, _)
containsKeyRecursive(data, searchKey) ==
    IF data.t = "obj"
    THEN \/ \E j \in 1..Len(data.kids) : data.kids[j].k = searchKey
         \/ \E j \in 1..Len(data.kids) : containsKeyRecursive(data.kids[j].v, searchKey)
    ELSE IF data.t = "arr"
    THEN \E j \in 1..Len(data.kids) : containsKeyRecursive(data.kids[j], searchKey)
    ELSE FALSE

\* ContainsKeyDeep
ContainsKeyDeep(content, searchKey) ==
    LET r == Unmarshal(content)
    IN  IF ~r.ok THEN FALSE ELSE containsKeyRecursive(r.v, searchKey)

(***************************************************************************)
(* The documents the calls start from.  A block is the lines of one        *)
(* property or array element, its last line without the comma; Items       *)
(* joins blocks with commas, as a formatter writes them.                   *)
(***************************************************************************)
MaxCalls == 2

KeyA == <<"a">>
KeyB == <<"b">>
KeyC == <<"c">>
KeyK == <<"k">>
KeyT == <<"t">>

One == <<"1">>

P(ind, key, val) == Sp(ind) \o Quoted(key) \o <<":", " ">> \o val

RECURSIVE Items(_)
Items(blocks) ==
    IF blocks = <<>> THEN <<>>
    ELSE IF Len(blocks) = 1 THEN blocks[1]
    ELSE [blocks[1] EXCEPT ![Len(blocks[1])] = @ \o <<",">>] \o Items(Tail(blocks))

Scalar(ind, key, val) == <<P(ind, key, val)>>

ObjBlock(ind, key, members) ==
    <<P(ind, key, <<"{">>)>> \o Items(members) \o <<Sp(ind) \o <<"}">> >>

ArrBlock(ind, key, elems) ==
    <<P(ind, key, <<"[">>)>> \o Items(elems) \o <<Sp(ind) \o <<"]">> >>

Elem(ind, members) ==
    <<Sp(ind) \o <<"{">> >> \o Items(members) \o <<Sp(ind) \o <<"}">> >>

\* {"key":1} on one line
Inline(key) == <<"{">> \o Quoted(key) \o <<":", "1", "}">>

Root(blocks) == << <<"{">> >> \o Items(blocks) \o << <<"}">> >>

\* properties a root object may hold under the key the calls insert
KBlocks ==
    { Scalar(2, KeyK, One),
      ObjBlock(2, KeyK, <<Scalar(4, KeyA, One)>>),
      ArrBlock(2, KeyK, << <<Sp(4) \o One>>, <<Sp(4) \o <<"2">> >> >>),
      Scalar(2, KeyA, Inline(KeyK)),
      Scalar(2, KeyT, Quoted(KeyK)) }

\* objects under the context key
CObjBlocks ==
    { ObjBlock(2, KeyC, <<Scalar(4, KeyK, One)>>),
      ObjBlock(2, KeyC, <<Scalar(4, KeyA, One)>>),
      ObjBlock(2, KeyC, <<ObjBlock(4, KeyA, <<Scalar(6, KeyK, One)>>)>>),
      ObjBlock(2, KeyC, <<Scalar(4, KeyT, Quoted(KeyK)), Scalar(4, KeyB, One)>>),
      Scalar(2, KeyC, Inline(KeyK)) }

\* arrays of values under the context key
CValBlocks ==
    { ArrBlock(2, KeyC, << <<Sp(4) \o One>>, <<Sp(4) \o <<"2">> >> >>),
      ArrBlock(2, KeyC, << <<Sp(4) \o Quoted(KeyA)>> >>),
      ArrBlock(2, KeyC, <<>>),
      Scalar(2, KeyC, <<"[", "1", "]">>) }

\* arrays of objects under the context key
CArrBlocks ==
    { ArrBlock(2, KeyC, <<Elem(4, <<Scalar(6, KeyA, One)>>),
                          Elem(4, <<Scalar(6, KeyK, One)>>)>>),
      ArrBlock(2, KeyC, <<Elem(4, <<Scalar(6, KeyA, One)>>),
                          Elem(4, <<Scalar(6, KeyB, One)>>)>>),
      ArrBlock(2, KeyC, <<Elem(4, <<Scalar(6, KeyA, One),
                                    ObjBlock(6, KeyB, <<Scalar(8, KeyA, One)>>)>>)>>),
      ArrBlock(2, KeyC, <<Elem(4, <<Scalar(6, KeyT, Quoted(KeyK))>>)>>),
      ArrBlock(2, KeyC, << <<Sp(4) \o Inline(KeyA)>>, <<Sp(4) \o Inline(KeyK)>> >>),
      ArrBlock(2, KeyC, << <<Sp(4) \o Inline(KeyA)>>, <<Sp(4) \o Inline(KeyB)>> >>),
      Scalar(2, KeyC, <<"[">> \o Inline(KeyA) \o <<"]">>) }

Blocks == KBlocks \cup CObjBlocks \cup CValBlocks \cup CArrBlocks

\* properties written before a block
Leads == { Scalar(2, KeyA, One), Scalar(2, KeyT, Quoted(KeyC)) }

\* a last property whose line ends in a space
TrailA == Scalar(2, KeyA, One \o <<" ">>)

\* {"a":{"b":1},"c":{"b":2}} on one line
TwoOnLine ==
    << <<"{">> \o Quoted(KeyA) \o <<":">> \o Inline(KeyB) \o <<",">>
       \o Quoted(KeyC) \o <<":", "{">> \o Quoted(KeyB) \o <<":", "2", "}", "}">> >>

\* keys written with blanks, or a line feed, before the colon, and the key's
\* text as a string value
Spaced ==
    << <<"{">>,
       Sp(2) \o Quoted(KeyA) \o <<" ", ":", " ">> \o Quoted(KeyA) \o <<",">>,
       Sp(2) \o Quoted(KeyT) \o <<":", " ">> \o Quoted(KeyA) \o <<",">>,
       Sp(2) \o Quoted(KeyA),
       Sp(2) \o <<":", " ", "1">>,
       <<"}">> >>

\* the same keys, the key's text being no string value
SpacedKeys ==
    << <<"{">>,
       Sp(2) \o Quoted(KeyA) \o <<" ", ":", " ", "1", ",">>,
       Sp(2) \o Quoted(KeyA),
       Sp(2) \o <<":", " ", "1">>,
       <<"}">> >>

\* an array of objects one of which has a bracket in a string value
BracketDoc ==
    Root(<<ArrBlock(2, KeyC, <<Elem(4, <<Scalar(6, KeyA, Quoted(<<"[">>))>>)>>)>>)

\* a document cut off inside an array of objects: the bracket opened on the
\* line of the key c, and the root brace, are never closed
Unclosed ==
    << <<"{">>, P(2, KeyC, <<"[">>) >> \o Elem(4, <<Scalar(6, KeyA, One)>>)

\* an object whose opening brace stands on the line after its key
NextLineObject ==
    << <<"{">>, Sp(2) \o Quoted(KeyA) \o <<":">> >>
    \o Elem(2, <<Scalar(4, KeyB, One)>>) \o << <<"}">> >>

\* an object under the key a that has an object under the key a
NestedTarget ==
    Root(<<ObjBlock(2, KeyA, <<Scalar(4, KeyB, One),
                               ObjBlock(4, KeyA, <<Scalar(6, KeyB, One)>>)>>)>>)

\* an object closed on the line that opens the next one
CompactDoc ==
    << <<"{">>, P(2, KeyA, <<"{">>), Sp(2) \o <<"}", ",", " ">> \o P(0, KeyB, <<"{">>),
       Sp(2) \o <<"}">>, <<"}">> >>

\* the same inside an object that follows a property of the same name
HalfCompactDoc ==
    << <<"{">>, P(2, KeyB, One \o <<",">>), P(2, KeyA, <<"{">>),
       P(4, KeyC, <<"{">>), Sp(4) \o <<"}", ",", " ">> \o P(0, KeyB, <<"{">>),
       Sp(4) \o <<"}">>, Sp(2) \o <<"}">>, <<"}">> >>

\* an array of values on one line, followed by an array of objects
TagsThenObjects ==
    Root(<<Scalar(2, KeyC, <<"[">> \o Quoted(KeyA) \o <<"]">>),
           ArrBlock(2, KeyA, <<Elem(4, <<Scalar(6, KeyB, One)>>)>>)>>)

\* a property followed by a property whose line holds a closing brace
EmptyObjectSibling ==
    Root(<<Scalar(2, KeyA, One), Scalar(2, KeyB, <<"{", "}">>)>>)

Docs ==
    { Root(<<b>>) : b \in Blocks }
    \cup { Root(<<l, b>>) : l \in Leads, b \in Blocks }
    \cup { Root(<<b, Scalar(2, KeyA, One)>>) : b \in CObjBlocks \cup CArrBlocks }
    \cup { Root(<<Scalar(2, KeyK, One), TrailA>>),
           Root(<<Scalar(2, KeyC, One), TrailA>>),
           <<Inline(KeyA)>>, <<Inline(KeyK)>>, TwoOnLine, Spaced, SpacedKeys,
           BracketDoc, Unclosed, NestedTarget, NextLineObject,
           EmptyObjectSibling, CompactDoc, HalfCompactDoc,
           TagsThenObjects }

\* the arguments of the calls
Paths == { <<>>, KeyC, <<"a", ".", "c">> }

Keys == { KeyK }

Values == { Num(One), Str(<<"x", "{">>), Obj(<<[k |-> KeyA, v |-> Num(One)]>>) }

TargetKeys == { KeyA, KeyB, KeyC }

Payloads == { Num(<<"5">>), Obj(<<[k |-> KeyB, v |-> Num(One)]>>),
              [t |-> "invalid", s |-> <<>>, kids |-> <<>>] }

\* the key filters of the file browser
KeyFilters == { KeyK, KeyA }

\* the renames asked for: old key, new key
Renames == { <<KeyA, KeyK>>, <<KeyK, KeyA>>, <<KeyA, KeyA>> }

(***************************************************************************)
(* The state machine: one document, as a file of the batch holds it, and   *)
(* the calls AddJSONItemToFiles and AddJSONItemAfter make on it.  A call   *)
(* that returns no error has its result written back; any other leaves     *)
(* the document as it was.  res records the last call.                     *)
(***************************************************************************)
NoCall ==
    [op |-> "none", arg |-> <<>>, key |-> <<>>, value |-> Num(<<>>),
     in |-> <<>>, out |-> <<>>, err |-> "nil", count |-> 0, found |-> FALSE]

\* no batch is running
NoBatch ==
    /\ fs = <<>> /\ req = <<>> /\ idx = 0 /\ pc = "none" /\ cur = <<>> /\ results = <<>>

Init ==
    /\ doc \in Docs
    /\ res = NoCall
    /\ calls = 0
    /\ NoBatch

Returned(op, arg, key, value, r) ==
    /\ res' = [op |-> op, arg |-> arg, key |-> key, value |-> value,
               in |-> doc, out |-> r.out, err |-> r.err,
               count |-> IF "count" \in DOMAIN r THEN r.count ELSE 0,
               found |-> IF "found" \in DOMAIN r THEN r.found ELSE FALSE]
    /\ doc' = IF r.err = "nil" THEN r.out ELSE doc
    /\ calls' = calls + 1
    /\ UNCHANGED <<fs, req, idx, pc, cur, results>>

AddJSONItemToFiles(objectPath, key, value) ==
    /\ calls < MaxCalls
    /\ Returned("InsertJSONKeyValue", objectPath, key, value,
                InsertJSONKeyValue(doc, objectPath, key, value))

AddJSONItemAfter(targetKey, newObjectKey, newObj) ==
    /\ calls < MaxCalls
    /\ Returned("InsertItemAfter", targetKey, newObjectKey, newObj,
                InsertItemAfter(doc, targetKey, newObjectKey, newObj))

ReplaceKeys(oldKey, newKey) ==
    /\ calls < MaxCalls
    /\ Returned("ReplaceKeys", oldKey, newKey, Num(<<>>),
                ReplaceKeyInFile(doc, oldKey, newKey))

\* BrowseFolder with a key filter, for the one file: the file is read and
\* ContainsKeyDeep decides whether it is listed; nothing is written
BrowseFolder(jsonKeyFilter) ==
    /\ calls < MaxCalls
    /\ Returned("ContainsKeyDeep", <<>>, jsonKeyFilter, Num(<<>>),
                [out |-> doc, err |-> "nil",
                 found |-> ContainsKeyDeep(Join(doc), jsonKeyFilter)])

Next ==
    \/ \E p \in Paths, k \in Keys, v \in Values : AddJSONItemToFiles(p, k, v)
    \/ \E t \in TargetKeys, k \in Keys, v \in Payloads : AddJSONItemAfter(t, k, v)
    \/ \E r \in Renames : ReplaceKeys(r[1], r[2])
    \/ \E k \in KeyFilters : BrowseFolder(k)

Spec == Init /\ [][Next]_vars

(***************************************************************************)
(* The batch operations of main.go and ReplaceKeyInFiles, file by file,    *)
(* and fileops.ReadFile / fileops.WriteFile step by step.  Every system    *)
(* call (open, create, write, close, rename) may fail.                     *)
(***************************************************************************)
MaxFiles == 2

BatchPaths == {"f", "g"}

\* WriteFile without a temporary file
sameFile(filePath) == filePath

\* WriteFile: tempFile := filePath + ".tmp"
tempFile(filePath) == filePath \o ".tmp"

FileNames == BatchPaths \cup {tempFile(p) : p \in BatchPaths}

NoFile == [exists |-> FALSE, data |-> <<>>]

File(data) == [exists |-> TRUE, data |-> data]

\* what the files of a batch hold
BatchDocs ==
    { Root(<<Scalar(2, KeyA, One)>>),
      Root(<<Scalar(2, KeyK, One), Scalar(2, KeyA, One)>>),
      Root(<<Scalar(2, KeyK, One)>>),
      BracketDoc }

\* what a file that has the name of a temporary file holds before the batch
StrayDoc == Root(<<Scalar(2, KeyB, One)>>)

\* the requests: operation, its arguments
BatchRequests ==
    { [op |-> "AddJSONItemToFiles", arg |-> <<>>, key |-> KeyK, value |-> Num(One)],
      [op |-> "AddJSONItemToFiles", arg |-> KeyC, key |-> KeyK, value |-> Num(One)],
      [op |-> "AddJSONItemAfter", arg |-> KeyA, key |-> KeyK, value |-> Num(<<"5">>)],
      [op |-> "AddJSONItemAfter", arg |-> KeyA, key |-> KeyB,
       value |-> [t |-> "invalid", s |-> <<>>, kids |-> <<>>]],
      [op |-> "ReplaceKeyInFiles", arg |-> KeyA, key |-> KeyK, value |-> Num(<<>>)],
      [op |-> "ReplaceKeyInFiles", arg |-> KeyA, key |-> KeyA, value |-> Num(<<>>)] }

\* the lists of file paths of a batch
FileLists == UNION {[1..n -> BatchPaths] : n \in 0..MaxFiles}

\* the locals of the loop body, and what the path (old) and its temporary
\* file (oldTemp) held when WriteFile was called
NoLocals ==
    [content |-> <<>>, out |-> <<>>, err |-> "none", old |-> NoFile, oldTemp |-> NoFile,
     werr |-> FALSE]

BatchInit ==
    /\ doc = <<>> /\ res = NoCall /\ calls = 0
    /\ fs \in [FileNames -> {NoFile} \cup {File(d) : d \in BatchDocs}]
    /\ \A n \in FileNames \ BatchPaths : fs[n] \in {NoFile, File(StrayDoc)}
    /\ \E r \in BatchRequests, l \in FileLists :
          req = [op |-> r.op, arg |-> r.arg, key |-> r.key, value |-> r.value, files |-> l]
    /\ idx = 1
    /\ pc = "start"
    /\ cur = NoLocals
    /\ results = <<>>

\* the engine call of the loop body
EngineCall(content) ==
    IF req.op = "AddJSONItemToFiles"
    THEN InsertJSONKeyValue(content, req.arg, req.key, req.value)
    ELSE IF req.op = "AddJSONItemAfter"
    THEN InsertItemAfter(content, req.arg, req.key, req.value)
    ELSE ReplaceKeyInFile(content, req.arg, req.key)

\* strings.Contains(err.Error(), "already exists"), over the errors of the engines
mentionsAlreadyExists(err) ==
    err \in { "already exists at root level", "already exists in target object",
              "already exists in one or more array objects", "object already exists" }

\* what the loop body reports for an engine error
engineErrorReport(err) ==
    IF req.op = "AddJSONItemAfter" /\ mentionsAlreadyExists(err) THEN "SKIPPED" ELSE "ERROR"

\* a loop body that never takes the engine's error for one
engineNeverFailed(err) == FALSE

\* the loop body's test of the engine's error
engineFailed(err) == err # "nil"

\* results[filePath] = report (a map), or results = append(results, result)
record(filePath, report, reason) ==
    LET entry == [path |-> filePath, report |-> report, reason |-> reason]
        Other(e) == e.path # filePath
    IN  IF req.op = "ReplaceKeyInFiles" THEN Append(results, entry)
        ELSE Append(SelectSeq(results, Other), entry)

\* the end of the loop body for the file in work: its result, and on to the next
Continue(report, reason) ==
    /\ results' = record(req.files[idx], report, reason)
    /\ idx' = idx + 1
    /\ pc' = IF idx + 1 > Len(req.files) THEN "done" ELSE "read"

Frame == UNCHANGED <<doc, res, calls, req>>

\* the entry of the batch; ReplaceKeyInFiles validates its request first
Begin ==
    /\ pc = "start"
    /\ pc' = IF /\ req.op = "ReplaceKeyInFiles"
                /\ (req.arg = <<>> \/ req.key = <<>> \/ req.arg = req.key)
             THEN "rejected"
             ELSE IF req.files = <<>> THEN "done" ELSE "read"
    /\ UNCHANGED <<fs, idx, cur, results>> /\ Frame

\* fileops.ReadFile
ReadFile ==
    /\ pc = "read"
    /\ \/ /\ Continue("ERROR", "read failed")
          /\ cur' = NoLocals
       \/ /\ fs[req.files[idx]].exists
          /\ cur' = [NoLocals EXCEPT !.content = fs[req.files[idx]].data]
          /\ pc' = "engine"
          /\ UNCHANGED <<idx, results>>
    /\ UNCHANGED fs /\ Frame

\* the test of the engine's return r; a panic leaves the batch
Tested(r) ==
    /\ cur' = [cur EXCEPT !.out = r.out, !.err = r.err]
    /\ IF r.err = "panic"
       THEN pc' = "panicked" /\ UNCHANGED <<idx, results>>
       ELSE IF engineFailed(r.err)
       THEN Continue(engineErrorReport(r.err), r.err)
       ELSE pc' = "create" /\ UNCHANGED <<idx, results>>

\* the engine call of the loop body
Engine ==
    /\ pc = "engine"
    /\ Tested(EngineCall(cur.content))
    /\ UNCHANGED fs /\ Frame

\* WriteFile: os.Create(tempFile)
Create ==
    /\ pc = "create"
    /\ cur' = [cur EXCEPT !.old = fs[req.files[idx]],
                          !.oldTemp = fs[tempFile(req.files[idx])]]
    /\ \/ Continue("ERROR", "write failed") /\ UNCHANGED fs
       \/ /\ fs' = [fs EXCEPT ![tempFile(req.files[idx])] = File(<<>>)]
          /\ pc' = "write"
          /\ UNCHANGED <<idx, results>>
    /\ Frame

\* WriteFile: file.Write(data); a failed write leaves a part of the data
Write ==
    /\ pc = "write"
    /\ \/ /\ fs' = [fs EXCEPT ![tempFile(req.files[idx])] = File(cur.out)]
          /\ cur' = [cur EXCEPT !.werr = FALSE]
       \/ \E n \in {0, 1} :
             /\ n < Len(cur.out)
             /\ fs' = [fs EXCEPT ![tempFile(req.files[idx])] = File(SubSeq(cur.out, 1, n))]
             /\ cur' = [cur EXCEPT !.werr = TRUE]
    /\ pc' = "close"
    /\ UNCHANGED <<idx, results>> /\ Frame

\* WriteFile: file.Close(), then the tests of err and closeErr
Close ==
    /\ pc = "close"
    /\ \E closeErr \in BOOLEAN :
          pc' = IF cur.werr \/ closeErr THEN "remove" ELSE "rename"
    /\ UNCHANGED <<fs, idx, cur, results>> /\ Frame

\* WriteFile: os.Remove(tempFile), its error ignored, and the return of the error
Remove ==
    /\ pc = "remove"
    /\ \/ fs' = [fs EXCEPT ![tempFile(req.files[idx])] = NoFile]
       \/ UNCHANGED fs
    /\ Continue("ERROR", "write failed")
    /\ UNCHANGED cur /\ Frame

\* WriteFile: os.Rename(tempFile, filePath)
Rename ==
    /\ pc = "rename"
    /\ \/ /\ fs' = [fs EXCEPT ![tempFile(req.files[idx])] = NoFile,
                              ![req.files[idx]] = fs[tempFile(req.files[idx])]]
          /\ Continue("SUCCESS", "nil")
       \/ /\ UNCHANGED fs
          /\ Continue("ERROR", "write failed")
    /\ UNCHANGED cur /\ Frame

BatchNext ==
    \/ Begin
    \/ ReadFile
    \/ Engine
    \/ Create
    \/ Write
    \/ Close
    \/ Remove
    \/ Rename

BatchSpec == BatchInit /\ [][BatchNext]_vars

(***************************************************************************)
(* The line scanner on its own: findMatchingBracket applied to the lines   *)
(* of a document, from any of its lines, for braces and for brackets.      *)
(***************************************************************************)
\* string values with a quote escaped before a brace, and with a backslash
\* escaped before the closing quote
EscapedDoc ==
    Root(<<ObjBlock(2, KeyA, <<Scalar(4, KeyT, <<Q, "x", "\\", Q, "}", Q>>),
                               Scalar(4, KeyB, <<Q, "\\", "\\", Q>>)>>),
           Scalar(2, KeyC, <<"[", Q, "]", Q, "]">>)>>)

ScanDocs == Docs \cup { EscapedDoc, CompactDoc }

ScanInit ==
    /\ doc \in ScanDocs
    /\ res = NoCall
    /\ calls = 0
    /\ NoBatch

\* a call of findMatchingBracket on the lines of the document
Scan(startIndex, openChar, closeChar) ==
    /\ res' = [op |-> "findMatchingBracket", lines |-> doc, startIndex |-> startIndex,
               openChar |-> openChar, closeChar |-> closeChar,
               ret |-> findMatchingBracket(doc, startIndex, openChar, closeChar)]
    /\ UNCHANGED <<doc, calls, fs, req, idx, pc, cur, results>>

ScanNext ==
    \E startIndex \in 1..Len(doc), b \in { <<"{", "}">>, <<"[", "]">> } :
        Scan(startIndex, b[1], b[2])

ScanSpec == ScanInit /\ [][ScanNext]_vars

(***************************************************************************)
(* What a document says, read as JSON text character by character:         *)
(* strings and escapes are honoured, every object and array gets a number  *)
(* in the order of its opening, with the line it opens on, the line it     *)
(* closes on (0 while open) and the key entry it is the value of (0 when   *)
(* of none), and every string followed by a colon is a                     *)
(* key of the innermost open object.  The properties below are stated      *)
(* against this reading, never against the engine's own line tests.        *)
(***************************************************************************)
Top(stack) == IF stack = <<>> THEN 0 ELSE stack[Len(stack)]

ReadStart ==
    [inStr |-> FALSE, esc |-> FALSE, cur |-> <<>>, hasLast |-> FALSE, last |-> <<>>,
     pend |-> FALSE, pkey |-> <<>>, stack |-> <<>>, keys |-> <<>>, conts |-> <<>>]

ReadChar(st, c, ln) ==
    IF st.inStr
    THEN IF st.esc THEN [st EXCEPT !.esc = FALSE, !.cur = Append(@, c)]
         ELSE IF c = "\\" THEN [st EXCEPT !.esc = TRUE]
         ELSE IF c = Q THEN [st EXCEPT !.inStr = FALSE, !.hasLast = TRUE, !.last = st.cur]
         ELSE [st EXCEPT !.cur = Append(@, c)]
    ELSE IF c = Q
         THEN [st EXCEPT !.inStr = TRUE, !.cur = <<>>, !.hasLast = FALSE, !.pend = FALSE]
    ELSE IF IsSpace(c) THEN st
    ELSE IF c = ":"
         THEN IF st.hasLast
              THEN [st EXCEPT !.keys = Append(@, [k |-> st.last, owner |-> Top(st.stack),
                                                  line |-> ln]),
                              !.pend = TRUE, !.pkey = st.last, !.hasLast = FALSE]
              ELSE st
    ELSE IF c \in {"{", "["}
         THEN [st EXCEPT !.conts = Append(@, [kind |-> c, parent |-> Top(st.stack),
                                              named |-> st.pend,
                                              key |-> IF st.pend THEN st.pkey ELSE <<>>,
                                              line |-> ln,
                                              of |-> IF st.pend THEN Len(st.keys) ELSE 0,
                                              close |-> 0]),
                         !.stack = Append(@, Len(st.conts) + 1),
                         !.pend = FALSE, !.hasLast = FALSE]
    ELSE IF c \in {"}", "]"}
         THEN [st EXCEPT !.stack = IF @ = <<>> THEN @ ELSE SubSeq(@, 1, Len(@) - 1),
                         !.conts = IF st.stack = <<>> THEN @
                                   ELSE [@ EXCEPT ![Top(st.stack)].close = ln],
                         !.pend = FALSE, !.hasLast = FALSE]
    ELSE [st EXCEPT !.pend = FALSE, !.hasLast = FALSE]

RECURSIVE ReadLine(_, _, _, _)
ReadLine(st, line, j, ln) ==
    IF j > Len(line) THEN st
    ELSE LET next == ReadChar(st, line[j], ln)
         IN  IF next.inStr \in BOOLEAN THEN ReadLine(next, line, j + 1, ln) ELSE st

RECURSIVE ReadLines(_, _, _)
ReadLines(st, lines, ln) ==
    IF ln > Len(lines) THEN st
    ELSE LET next == ReadLine(st, lines[ln], 1, ln)
         IN  IF next.inStr \in BOOLEAN THEN ReadLines(next, lines, ln + 1) ELSE st

Read(lines) == ReadLines(ReadStart, lines, 1)

\* the keys of container id, in order
KeysOf(rd, id) ==
    LET Mine(e) == e.owner = id
        mine == SelectSeq(rd.keys, Mine)
    IN  [i \in 1..Len(mine) |-> mine[i].k]

HasKey(rd, id, key) == \E i \in 1..Len(rd.keys) : rd.keys[i].owner = id /\ rd.keys[i].k = key

\* the root object: the first object opened outside everything; 0 when none
RootOf(rd) ==
    LET roots == {i \in 1..Len(rd.conts) : rd.conts[i].parent = 0 /\ rd.conts[i].kind = "{"}
    IN  IF roots = {} THEN 0 ELSE CHOOSE i \in roots : \A j \in roots : i <= j

\* the first line on which key stands in key position; 0 when none
FirstKeyLine(rd, key) ==
    LET at == {rd.keys[i].line : i \in {j \in 1..Len(rd.keys) : rd.keys[j].k = key}}
    IN  IF at = {} THEN 0 ELSE CHOOSE l \in at : \A m \in at : l <= m

\* the object or array that is the value of the first occurrence of key; 0 when
\* that value is none of the two
TargetOf(rd, key) ==
    LET cs == {i \in 1..Len(rd.conts) :
                  /\ rd.conts[i].named /\ rd.conts[i].key = key
                  /\ rd.conts[i].line = FirstKeyLine(rd, key)}
    IN  IF cs = {} THEN 0 ELSE CHOOSE i \in cs : \A j \in cs : i <= j

\* the element objects of array id
ElementsOf(rd, id) ==
    {i \in 1..Len(rd.conts) : rd.conts[i].parent = id /\ rd.conts[i].kind = "{"}

\* the context key is textually unambiguous: no line before its key line has it
Unambiguous(lines, rd, key) ==
    /\ FirstKeyLine(rd, key) # 0
    /\ \A i \in 1..(FirstKeyLine(rd, key) - 1) : ~Contains(lines[i], Quoted(key))

IsInsert == res.op = "InsertJSONKeyValue"

IsAfter == res.op = "InsertItemAfter"

(***************************************************************************)
(* Properties                                                              *)
(***************************************************************************)
\* the root's opening brace is alone on its line
RootBraceAlone(lines) ==
    \E i \in 1..Len(lines) :
        /\ TrimSpace(lines[i]) = <<"{">>
        /\ \A j \in 1..(i - 1) : ~Contains(lines[j], <<"{">>)

\* C1: a root insertion of a key the root object already has is rejected with
\* "already exists at root level" and returns the input unchanged, whatever
\* the shape of the value under that key (stated for the documents whose root
\* brace is alone on its line, the layout the claim's value shapes are in).
C1_RootDuplicateRejected ==
    ( /\ IsInsert /\ res.arg = <<>> /\ RootBraceAlone(res.in)
      /\ HasKey(Read(res.in), RootOf(Read(res.in)), res.key) )
        => (res.err = "already exists at root level" /\ res.out = res.in)

\* C2: an insertion into the object opened by the line `"ctx": {` is rejected
\* with "already exists in target object" and returns the input unchanged when
\* the key is already a direct property of that object.
C2_ObjectDuplicateRejected ==
    LET rd == Read(res.in)
        l  == FirstKeyLine(rd, res.arg)
    IN  ( /\ IsInsert /\ res.arg # <<>>
          /\ Unambiguous(res.in, rd, res.arg)
          /\ TrimSpace(res.in[l]) = Quoted(res.arg) \o <<":", " ", "{">>
          /\ HasKey(rd, TargetOf(rd, res.arg), res.key) )
        => (res.err = "already exists in target object" /\ res.out = res.in)

\* C3: after a root insertion of K succeeded on a document whose root brace is
\* alone on its line, a second root insertion of K, with any value, fails with
\* the root duplicate error and returns the document unchanged.
C3_RootInsertTwice ==
    [][ ( /\ IsInsert /\ res.arg = <<>> /\ res.err = "nil" /\ RootBraceAlone(res.in)
          /\ res'.op = "InsertJSONKeyValue" /\ res'.arg = <<>> /\ res'.key = res.key )
        => (res'.err = "already exists at root level" /\ res'.out = res.out) ]_vars

\* C4: an insertion into an array of objects one element of which already has
\* the key fails with "already exists in one or more array objects" and returns
\* the input unchanged.
C4_ArrayAllOrNothing ==
    LET rd == Read(res.in)
        a  == TargetOf(rd, res.arg)
    IN  ( /\ IsInsert /\ res.arg # <<>>
          /\ Unambiguous(res.in, rd, res.arg)
          /\ a # 0 /\ rd.conts[a].kind = "["
          /\ \E e \in ElementsOf(rd, a) : HasKey(rd, e, res.key) )
        => ( /\ res.err = "already exists in one or more array objects"
             /\ res.out = res.in )

\* line is `<indent>v,` for the JSON text of value v
IsValueLine(line, v) == line = getIndentation(line) \o Marshal(v) \o <<",">>

\* the context key names an array of scalars whose opening bracket ends its line
ScalarArrayTarget(lines, key) ==
    LET rd == Read(lines)
        a  == TargetOf(rd, key)
    IN  /\ key # <<>>
        /\ Unambiguous(lines, rd, key)
        /\ a # 0 /\ rd.conts[a].kind = "["
        /\ \A i \in 1..Len(rd.conts) : rd.conts[i].parent # a
        /\ HasSuffix(TrimSpace(lines[rd.conts[a].line]), <<"[">>)

\* C5: on an array of scalars whose bracket ends its line, inserting the same
\* scalar value twice succeeds both times, and afterwards the two lines after
\* the opening-bracket line are both `<indent>v,`.
C5_ValueInsertedTwice ==
    [][ /\ ( /\ res'.op = "InsertJSONKeyValue" /\ res'.value.t \in {"num", "str"}
             /\ ScalarArrayTarget(res'.in, res'.arg) )
            => res'.err = "nil"
        /\ ( /\ IsInsert /\ res.value.t \in {"num", "str"} /\ res.err = "nil"
             /\ ScalarArrayTarget(res.in, res.arg)
             /\ res'.op = "InsertJSONKeyValue" /\ res'.arg = res.arg
             /\ res'.value = res.value )
            => LET l == FirstKeyLine(Read(res.in), res.arg)
               IN  /\ res'.err = "nil"
                   /\ IsValueLine(res'.out[l + 1], res.value)
                   /\ res'.out[l + 2] = res'.out[l + 1] ]_vars

\* C6: a successful root insertion into a document with a non-empty root object
\* returns a document whose root object has the new key as its first property,
\* followed by every property it had.
C6_RootInsertFirstProperty ==
    LET rd  == Read(res.in)
        rdo == Read(res.out)
    IN  ( /\ IsInsert /\ res.arg = <<>> /\ res.err = "nil"
          /\ RootOf(rd) # 0 /\ KeysOf(rd, RootOf(rd)) # <<>> )
        => KeysOf(rdo, RootOf(rdo)) = <<res.key>> \o KeysOf(rd, RootOf(rd))

\* the part of a dotted path after its last dot
LastSegment(path) ==
    LET dots == {i \in 1..Len(path) : path[i] = "."}
    IN  IF dots = {} THEN path
        ELSE SubSeq(path, (CHOOSE i \in dots : \A j \in dots : j <= i) + 1, Len(path))

\* C8: a call with a dotted objectPath behaves exactly as the same call with
\* the last dot-delimited segment of the path.
C8_DottedPathLastSegment ==
    (IsInsert /\ Contains(res.arg, <<".">>))
        => Ret(res.out, res.err)
             = InsertJSONKeyValue(res.in, LastSegment(res.arg), res.key, res.value)

\* C9: the context key resolves to the first line on which it stands in key
\* position; an earlier line that holds it only as a string value is not
\* selected and does not make the call fail.
C9_FirstKeyPositionLine ==
    LET rd == Read(res.in)
        l  == FirstKeyLine(rd, res.arg)
    IN  ( /\ IsInsert /\ res.arg # <<>>
          /\ l # 0 /\ TargetOf(rd, res.arg) # 0
          /\ \E i \in 1..(l - 1) : Contains(res.in[i], Quoted(res.arg)) )
        => ( /\ res.err \notin {"path not found", "invalid target line format",
                                "not an object or array"}
             /\ res.err = "nil" =>
                   /\ Len(res.out) > Len(res.in)
                   /\ SubSeq(res.out, 1, l) = SubSeq(res.in, 1, l) )

\* C10: a successful insertion into an array of objects adds one `"K": v,` line
\* per element object, as that element's first property, and none to an object
\* nested inside an element (stated for the arrays every element of which
\* opens on a line of its own).
C10_OneLinePerElement ==
    LET rd  == Read(res.in)
        a   == TargetOf(rd, res.arg)
        els == ElementsOf(rd, a)
        rdo == Read(res.out)
    IN  ( /\ IsInsert /\ res.arg # <<>> /\ res.err = "nil"
          /\ Unambiguous(res.in, rd, res.arg)
          /\ a # 0 /\ rd.conts[a].kind = "[" /\ els # {}
          /\ \A e \in els : TrimSpace(res.in[rd.conts[e].line]) = <<"{">> )
        => ( /\ Len(res.out) = Len(res.in) + Cardinality(els)
             /\ \A e \in ElementsOf(rdo, TargetOf(rdo, res.arg)) :
                   /\ KeysOf(rdo, e) # <<>>
                   /\ KeysOf(rdo, e)[1] = res.key )

\* the texts, without indentation, of the lines the last call may insert
NewTexts ==
    IF IsInsert
    THEN { Quoted(res.key) \o <<":", " ">> \o Marshal(res.value) \o <<",">>,
           Marshal(res.value) \o <<",">> }
    ELSE IF IsAfter /\ res.value.t # "invalid"
    THEN LET blk == newObjLinesFor(<<>>, res.key, MarshalIndent(res.value, 0))
         IN  {TrimSpace(blk[j]) : j \in 1..Len(blk)}
             \cup {TrimSpace(blk[Len(blk)]) \o <<",">>}
    ELSE {}

\* the lines of the input on which a value of the target key of InsertItemAfter ends
EndOfValueLines ==
    IF IsAfter
    THEN {findEndOfValue(res.in, t) : t \in targetLineIndices(res.in, res.arg)}
    ELSE {}

\* line i of the input is kept as line now of the output: byte for byte, or, on
\* an end-of-value line of InsertItemAfter, with a comma appended (to the whole
\* line when exact, to the line without its trailing blanks otherwise)
KeptAs(i, now, exact) ==
    \/ now = res.in[i]
    \/ /\ i \in EndOfValueLines
       /\ now = (IF exact THEN res.in[i] ELSE TrimRight(res.in[i], {" ", "\t"})) \o <<",">>

\* deleting inserted lines from the output gives the lines of the input, in
\* order, each kept
Fidelity(exact) ==
    LET RECURSIVE Embeds(_, _)
        Embeds(i, j) ==
            IF i > Len(res.in)
            THEN \A m \in j..Len(res.out) : TrimSpace(res.out[m]) \in NewTexts
            ELSE IF j > Len(res.out) THEN FALSE
            ELSE \/ KeptAs(i, res.out[j], exact) /\ Embeds(i + 1, j + 1)
                 \/ TrimSpace(res.out[j]) \in NewTexts /\ Embeds(i, j + 1)
    IN  Embeds(1, 1)

KeyEntries(rd, key) == {i \in 1..Len(rd.keys) : rd.keys[i].k = key}

\* the lines on which key stands in key position
KeyLines(rd, key) == {rd.keys[i].line : i \in KeyEntries(rd, key)}

\* the objects that have key as a property
OwnersOf(rd, key) == {rd.keys[i].owner : i \in KeyEntries(rd, key)}

\* C11: a successful InsertItemAfter inserts as many copies of the new block as
\* the input has lines with the target key in key position; a line that has
\* the target only as a string value gets none.
C11_CopiesPerKeyLine ==
    (IsAfter /\ res.err = "nil")
        => Len(res.out) = Len(res.in)
                          + Cardinality(KeyLines(Read(res.in), res.arg))
                            * Len(MarshalIndent(res.value, 0))

\* the nesting depth of container id: 1 for a container opened outside all
RECURSIVE DepthOf(_, _)
DepthOf(rd, id) == IF id = 0 THEN 0 ELSE 1 + DepthOf(rd, rd.conts[id].parent)

\* one property per line, each at the start of its line and indented by two
\* spaces per nesting level
Formatted(lines, rd) ==
    /\ \A i, j \in 1..Len(rd.keys) : i # j => rd.keys[i].line # rd.keys[j].line
    /\ \A i \in 1..Len(rd.keys) :
          /\ rd.keys[i].owner # 0
          /\ getIndentation(lines[rd.keys[i].line])
                = Sp(2 * DepthOf(rd, rd.keys[i].owner))
          /\ HasPrefix(TrimSpace(lines[rd.keys[i].line]), Quoted(rd.keys[i].k))

\* C12: on a document with one property per line, consistently indented,
\* InsertItemAfter fails with "object with key 'N' already exists" exactly
\* when N is a key of an object that has the target key; an N elsewhere does
\* not block the insertion.
C12_DuplicateGuardIff ==
    LET rd == Read(res.in)
    IN  (IsAfter /\ Formatted(res.in, rd))
            => ( (res.err = "object already exists")
                 <=> (\E o \in OwnersOf(rd, res.arg) : HasKey(rd, o, res.key)) )

\* no object has two properties of the same name
NoDuplicateKeys(rd) ==
    \A i, j \in 1..Len(rd.keys) :
        (i # j /\ rd.keys[i].owner = rd.keys[j].owner) => rd.keys[i].k # rd.keys[j].k

\* C13: when no object of the input has two properties of the same name, no
\* object of the result of a successful InsertItemAfter has two properties
\* named N.
C13_NoDuplicateAfter ==
    LET rdo == Read(res.out)
    IN  (IsAfter /\ res.err = "nil" /\ NoDuplicateKeys(Read(res.in)))
            => \A i, j \in KeyEntries(rdo, res.key) :
                   i # j => rdo.keys[i].owner # rdo.keys[j].owner

\* C14: when the target key stands twice in key position on one line, every
\* object that has the target key has the new key after a successful
\* InsertItemAfter.
C14_EveryOccurrenceOnALine ==
    LET rd  == Read(res.in)
        rdo == Read(res.out)
    IN  ( /\ IsAfter /\ res.err = "nil"
          /\ \E i, j \in KeyEntries(rd, res.arg) :
                i # j /\ rd.keys[i].line = rd.keys[j].line )
            => Cardinality({o \in OwnersOf(rdo, res.arg) : HasKey(rdo, o, res.key)})
                  >= Cardinality(OwnersOf(rd, res.arg))

(***************************************************************************)
(* Properties of the key rename                                            *)
(***************************************************************************)
IsReplace == res.op = "ReplaceKeys"

\* the positions of text at which "key" stands
QuotedAt(text, key) ==
    {i \in 1..(Len(text) - Len(key) - 1) :
        SubSeq(text, i, i + Len(key) + 1) = Quoted(key)}

\* the positions of text at which "key" stands followed by optional white
\* space and a colon
KeyOccurrences(text, key) ==
    {i \in QuotedAt(text, key) :
        \E c \in (i + Len(key) + 2)..Len(text) :
            /\ text[c] = ":"
            /\ \A m \in (i + Len(key) + 2)..(c - 1) : IsRegexSpace(text[m])}

\* out is text with the key A between the quotes of every key occurrence
\* replaced by B, every other character kept in place
Renamed(text, out, A, B) ==
    LET occ == KeyOccurrences(text, A)
        d   == Len(B) - Len(A)
        Before(p) == Cardinality({i \in occ : i + Len(A) < p})
        InKey(p)  == \E i \in occ : i < p /\ p <= i + Len(A)
    IN  /\ Len(out) = Len(text) + d * Cardinality(occ)
        /\ \A p \in 1..Len(text) : ~InKey(p) => out[p + d * Before(p)] = text[p]
        /\ \A i \in occ :
              SubSeq(out, i + 1 + d * Before(i), i + Len(B) + d * Before(i)) = B

\* C15: the rename of A to B rewrites exactly the occurrences of "A" that are
\* followed by optional white space and a colon, keeps every other character
\* (string values equal to "A", the white space before the colon), and counts
\* the occurrences it rewrote; with no occurrence it reports "no keys found".
C15_RenameKeyPositionsOnly ==
    LET text == Join(res.in)
        occ  == KeyOccurrences(text, res.arg)
    IN  (IsReplace /\ res.arg # res.key)
            => IF occ = {}
               THEN res.err = "no keys found" /\ res.count = 0
               ELSE /\ res.err = "nil"
                    /\ res.count = Cardinality(occ)
                    /\ Renamed(text, Join(res.out), res.arg, res.key)

\* C15 witness: a rename rewrote two keys of a document, one of them written
\* with a blank before its colon, that also has the old key as a string value.
C15_Witness ==
    /\ IsReplace /\ res.err = "nil" /\ res.count = 2
    /\ QuotedAt(Join(res.in), res.arg) # KeyOccurrences(Join(res.in), res.arg)
    /\ \E i \in KeyOccurrences(Join(res.in), res.arg) :
          Join(res.in)[i + Len(res.arg) + 2] = " "

\* the rename back: the step after a successful rename of A to B that renames
\* B to A
RenameBack ==
    /\ IsReplace /\ res.err = "nil"
    /\ res'.op = "ReplaceKeys" /\ res'.arg = res.key /\ res'.key = res.arg

\* A is no string value of the text: "A" stands in key position only
NotAValue(text, A) == QuotedAt(text, A) = KeyOccurrences(text, A)

IsDuplicateConflict(reason) ==
    reason \in { "already exists at root level", "already exists in target object",
                 "already exists in one or more array objects", "object already exists" }

\* C17: AddJSONItemToFiles and AddJSONItemAfter report a file as "SUCCESS" when
\* it was rewritten, as "SKIPPED: ..." when and only when the engine failed
\* with a duplicate-key conflict, and as "ERROR: ..." for every other failure.
C17_ReportClasses ==
    (req.op \in {"AddJSONItemToFiles", "AddJSONItemAfter"})
        => \A i \in 1..Len(results) :
              /\ results[i].report \in {"SUCCESS", "SKIPPED", "ERROR"}
              /\ (results[i].report = "SUCCESS") <=> (results[i].reason = "nil")
              /\ (results[i].report = "SKIPPED") <=> IsDuplicateConflict(results[i].reason)

\* the batch has left its loop
Left == pc \notin {"start", "rejected", "read", "engine", "create", "write", "close",
                   "remove", "rename"}

\* path has an outcome
HasOutcome(path) == \E j \in 1..Len(results) : results[j].path = path

\* C18: a batch whose request passed validation takes the listed files in
\* order and never stops early: the files before the one in work have their
\* outcome, no other file has one, and when the batch has left its loop every
\* listed path has an outcome; the outcome of a file that failed in the engine
\* is the engine's error on that file's own content.
C18_BatchIndependence ==
    (pc # "none")
        => /\ \A i \in 1..Len(req.files) : (i < idx) => HasOutcome(req.files[i])
           /\ \A j \in 1..Len(results) :
                 \E i \in 1..Len(req.files) : i < idx /\ req.files[i] = results[j].path
           /\ Left => \A i \in 1..Len(req.files) : HasOutcome(req.files[i])
           /\ \A j \in 1..Len(results) :
                 ( /\ results[j].reason \notin {"nil", "read failed", "write failed"}
                   /\ Cardinality({i \in 1..Len(req.files) :
                                      req.files[i] = results[j].path}) = 1 )
                     => EngineCall(fs[results[j].path].data).err = results[j].reason

\* WriteFile is running for the file in work
InWriteFile == pc \in {"create", "write", "close", "remove", "rename"}

\* the engine's return on an error is the input or the empty text
ErrorReturnsInputOrNothing ==
    (cur.err \notin {"none", "nil", "panic"}) => cur.out \in {cur.content, <<>>}

\* C19: a file is written only after its engine call returned success: WriteFile
\* runs only then, the content stored under a listed path changes only in the
\* rename that ends a successful WriteFile for that path, and what the engine
\* returns with an error is the input text or the empty text.
C19_NoWriteOnFailure ==
    [][ /\ InWriteFile' => cur'.err = "nil"
        /\ ErrorReturnsInputOrNothing'
        /\ \A p \in BatchPaths :
              (fs'[p] # fs[p])
                  => /\ pc = "rename" /\ p = req.files[idx] /\ cur.err = "nil"
                     /\ fs'[p] = File(cur.out)
                     /\ results'[Len(results')] =
                           [path |-> p, report |-> "SUCCESS", reason |-> "nil"] ]_vars

\* C19 witness: a batch of two files ended, the first rewritten, the second
\* left as it was after the engine returned an error and no text.
C19_Witness ==
    /\ pc = "done" /\ Len(results) = 2
    /\ results[1].report = "SUCCESS" /\ results[1].path # results[2].path
    /\ results[2].reason \in {"object already exists", "no keys found"}
    /\ cur.err = results[2].reason /\ cur.out = <<>>
    /\ fs[results[2].path] = File(cur.content)

\* C20: while WriteFile(P, data) runs, and when it ends, the content under P is
\* the complete previous content or the complete data, the data only after a
\* rename that succeeded; when WriteFile returns an error P holds the previous
\* content.
C20_AtomicWrite ==
    [][ InWriteFile
            => LET path == req.files[idx]
               IN  /\ \/ fs'[path] = cur'.old
                      \/ /\ pc = "rename" /\ fs'[path] = File(cur.out)
                         /\ results'[Len(results')].report = "SUCCESS"
                   /\ (idx' # idx /\ results'[Len(results')].report # "SUCCESS")
                          => fs'[path] = cur'.old ]_vars

\* C20 witness: a write failed after a part of the data; the temporary file
\* holds the part and the path still holds the previous content.
C20_Witness ==
    /\ pc = "close" /\ cur.werr
    /\ fs[tempFile(req.files[idx])].data # cur.out
    /\ Len(fs[tempFile(req.files[idx])].data) = 1
    /\ fs[req.files[idx]] = cur.old /\ cur.old.exists /\ cur.old.data # cur.out

(***************************************************************************)
(* Properties of the error order and of termination                        *)
(***************************************************************************)
\* C21: InsertItemAfter validates the payload first: with a payload that is
\* not valid JSON the call fails with "invalid JSON for new object", whether
\* or not the target key is in the document and whether or not the new key
\* exists next to it; with a valid payload and a document that has the target
\* key nowhere the call fails with "target key not found".
C21_PayloadValidatedFirst ==
    IsAfter
        => /\ (res.value.t = "invalid") => res.err = "invalid JSON for new object"
           /\ ( /\ res.value.t # "invalid"
                /\ \A i \in 1..Len(res.in) : ~Contains(res.in[i], Quoted(res.arg)) )
                 => res.err = "target key not found"

\* C22: no call of InsertJSONKeyValue or InsertItemAfter ends in a runtime
\* panic: every call returns a document or an error value, also on a document
\* in which a bracket or brace opened at or after the target line is never
\* closed.
C22_NoPanic ==
    (IsInsert \/ IsAfter) => res.err # "panic"

(***************************************************************************)
(* Properties of the deep key search                                       *)
(***************************************************************************)
IsSearch == res.op = "ContainsKeyDeep"

\* the names of the properties of the objects of a decoded value, at any depth
RECURSIVE NamesIn(_)
NamesIn(v) ==
    IF v.t = "obj"
    THEN {v.kids[j].k : j \in 1..Len(v.kids)}
         \cup UNION {NamesIn(v.kids[j].v) : j \in 1..Len(v.kids)}
    ELSE IF v.t = "arr" THEN UNION {NamesIn(v.kids[j]) : j \in 1..Len(v.kids)}
    ELSE {}

\* C23: ContainsKeyDeep returns true exactly when the content parses as JSON
\* and the key is the name of a property of an object at some depth of the
\* parsed value; it returns false on content that is not valid JSON and on
\* content in which the key stands nowhere in key position (as a string value
\* only), and on valid content without duplicate names it returns true
\* exactly when the key stands somewhere in key position.
C23_DeepKeySearch ==
    LET parsed == Unmarshal(Join(res.in))
        rd     == Read(res.in)
    IN  IsSearch
            => /\ res.found <=> (parsed.ok /\ res.key \in NamesIn(parsed.v))
               /\ ~parsed.ok => ~res.found
               /\ (KeyEntries(rd, res.key) = {}) => ~res.found
               /\ (parsed.ok /\ NoDuplicateKeys(rd))
                      => (res.found <=> KeyEntries(rd, res.key) # {})

\* C23 witness: the key was found in a document whose root object does not
\* have it: it is a property of an element of an array, and the document has
\* it as a string value nowhere.
C23_Witness ==
    LET rd == Read(res.in)
    IN  /\ IsSearch /\ res.found
        /\ ~HasKey(rd, RootOf(rd), res.key)
        /\ \E i \in KeyEntries(rd, res.key) :
              rd.conts[rd.keys[i].owner].parent # 0
              /\ rd.conts[rd.conts[rd.keys[i].owner].parent].kind = "["

(***************************************************************************)
(* Properties of the line scanner                                          *)
(***************************************************************************)
IsScan == res.op = "findMatchingBracket"

\* the string state [inStr, esc] after character c, and whether c stands
\* outside every string literal
MarkChar(st, c, ln) ==
    IF st.esc THEN [st EXCEPT !.esc = FALSE]
    ELSE IF c = "\\" /\ st.inStr THEN [st EXCEPT !.esc = TRUE]
    ELSE IF c = Q THEN [st EXCEPT !.inStr = ~@]
    ELSE IF ~st.inStr THEN [st EXCEPT !.marks = Append(@, [c |-> c, line |-> ln])]
    ELSE st

RECURSIVE MarkLine(_, _, _, _)
MarkLine(st, line, j, ln) ==
    IF j > Len(line) THEN st
    ELSE LET next == MarkChar(st, line[j], ln)
         IN  IF next.inStr \in BOOLEAN THEN MarkLine(next, line, j + 1, ln) ELSE st

RECURSIVE MarkLines(_, _, _)
MarkLines(st, lines, ln) ==
    IF ln > Len(lines) THEN st
    ELSE LET next == MarkLine(st, lines[ln], 1, ln)
         IN  IF next.inStr \in BOOLEAN THEN MarkLines(next, lines, ln + 1) ELSE st

\* the characters of lines, from the first character of line start on, that
\* stand outside string literals, each with its line
OutsideStrings(lines, start) ==
    MarkLines([inStr |-> FALSE, esc |-> FALSE, marks |-> <<>>], lines, start).marks

\* the closers among them after which the count of open minus close
\* characters is zero
ZeroAt(marks, openChar, closeChar) ==
    {n \in 1..Len(marks) :
        /\ marks[n].c = closeChar
        /\ Cardinality({m \in 1..n : marks[m].c = openChar})
              = Cardinality({m \in 1..n : marks[m].c = closeChar})}

EndOfOwnValue(rd, i) ==
    LET cs == {c \in 1..Len(rd.conts) : rd.conts[c].of = i}
    IN  IF cs = {} THEN rd.keys[i].line ELSE rd.conts[CHOOSE c \in cs : TRUE].close

\* the first line of the new block for an occurrence on a line indented as line
BlockHead(line) ==
    getIndentation(line) \o Quoted(res.key) \o <<":", " ">> \o MarshalIndent(res.value, 0)[1]

\* every line InsertItemAfter collects has one key, the target key
OneTargetPerLine(lines, rd, targetKey) ==
    \A l \in targetLineIndices(lines, targetKey) :
        /\ \E i \in KeyEntries(rd, targetKey) : rd.keys[i].line = l
        /\ \A i, j \in 1..Len(rd.keys) :
              (rd.keys[i].line = l /\ rd.keys[j].line = l) => i = j

\* C25: after a successful InsertItemAfter on a document whose collected lines
\* have the target as their one key, the new block of every occurrence starts
\* on the line immediately after the last line of the occurrence's own value,
\* counted in the result: after that line of the input and the blocks of the
\* occurrences whose values end before it; also when an occurrence lies
\* inside the value of another.
C25_BlockAfterOwnValue ==
    LET rd   == Read(res.in)
        occ  == {i \in KeyEntries(rd, res.arg) :
                    rd.keys[i].line \in targetLineIndices(res.in, res.arg)}
        size == Len(MarshalIndent(res.value, 0))
        Before(i) == Cardinality({j \in occ : EndOfOwnValue(rd, j) < EndOfOwnValue(rd, i)})
        At(i) == EndOfOwnValue(rd, i) + size * Before(i) + 1
    IN  (IsAfter /\ res.err = "nil" /\ OneTargetPerLine(res.in, rd, res.arg))
            => \A i \in occ :
                  (\A j \in occ : EndOfOwnValue(rd, j) = EndOfOwnValue(rd, i) => j = i)
                      => /\ EndOfOwnValue(rd, i) # 0
                         /\ At(i) <= Len(res.out)
                         /\ HasPrefix(res.out[At(i)], BlockHead(res.in[rd.keys[i].line]))

(***************************************************************************)
(* Properties of the comma repair of InsertItemAfter                       *)
(***************************************************************************)
\* no line of the document holds two keys, and no key stands on the line
\* that opens or closes the object it belongs to
OnePropertyPerLine(rd) ==
    /\ \A i, j \in 1..Len(rd.keys) : rd.keys[i].line = rd.keys[j].line => i = j
    /\ \A i \in 1..Len(rd.keys) :
          /\ rd.keys[i].owner \in 1..Len(rd.conts)
          /\ rd.conts[rd.keys[i].owner].line # rd.keys[i].line
          /\ rd.conts[rd.keys[i].owner].close # rd.keys[i].line

\* the object named by key entry i has a property on a line after line e
PropertyFollows(rd, i, e) ==
    \E j \in 1..Len(rd.keys) :
        rd.keys[j].owner = rd.keys[i].owner /\ rd.keys[j].line > e

\* C26: after a successful InsertItemAfter on a one-property-per-line
\* document with one occurrence of the target key, whose value is closed, the
\* end-of-value line of the target ends with a comma in the result, and the
\* last line of the new block ends with a comma exactly when another property
\* of the same object follows it.
C26_CommaRepair ==
    LET rd   == Read(res.in)
        occ  == KeyEntries(rd, res.arg)
        size == Len(MarshalIndent(res.value, 0))
    IN  ( /\ IsAfter /\ res.err = "nil"
          /\ OnePropertyPerLine(rd)
          /\ OneTargetPerLine(res.in, rd, res.arg)
          /\ Cardinality(occ) = 1
          /\ \A i \in occ : EndOfOwnValue(rd, i) # 0 )
            => \A i \in occ :
                  LET e == EndOfOwnValue(rd, i)
                  IN  /\ e + size <= Len(res.out)
                      /\ HasSuffix(TrimSpace(res.out[e]), <<",">>)
                      /\ HasSuffix(TrimSpace(res.out[e + size]), <<",">>)
                            <=> PropertyFollows(rd, i, e)

(***************************************************************************)
(* Properties of the occurrences of one InsertItemAfter call               *)
(***************************************************************************)
\* the collected occurrences whose end of value findEndOfValue cannot find
EndNotFound(lines, targetKey) ==
    {t \in targetLineIndices(lines, targetKey) : findEndOfValue(lines, t) = 0}

\* C27: whenever InsertItemAfter returns success the result has one copy of
\* the new block for every collected occurrence of the target key, and a call
\* in which the end of value of some collected occurrence cannot be found
\* returns an error and no document.
C27_AllOccurrencesOrError ==
    IsAfter =>
        /\ res.err = "nil" =>
              Len(res.out) = Len(res.in) + Len(MarshalIndent(res.value, 0))
                                * Cardinality(targetLineIndices(res.in, res.arg))
        /\ EndNotFound(res.in, res.arg) # {} => (res.err # "nil" /\ res.out = <<>>)

(***************************************************************************)
(* Properties of the frame of an insertion into an array                   *)
(***************************************************************************)
\* the line insertAtContextPath takes for the target: the first one that
\* holds the quoted path and a colon; 0 when none
TargetLine(lines, objectPath) ==
    LET at == {i \in 1..Len(lines) :
                  Contains(lines[i], Quoted(objectPath)) /\ Contains(lines[i], <<":">>)}
    IN  IF at = {} THEN 0 ELSE CHOOSE i \in at : \A j \in at : i <= j

\* the arrays that are the value of the key objectPath written on line t and
\* that open on that line and are closed
ArraysAt(rd, objectPath, t) ==
    {c \in 1..Len(rd.conts) :
        /\ rd.conts[c].kind = "["
        /\ rd.conts[c].of \in KeyEntries(rd, objectPath)
        /\ rd.keys[rd.conts[c].of].line = t
        /\ rd.conts[c].line = t
        /\ rd.conts[c].close # 0}

\* C28: a successful InsertJSONKeyValue whose path names an array A changes
\* only A: the lines up to and including the line of A's opening bracket, and
\* the lines from the line of A's closing bracket on, are those of the input,
\* so every added line lies between the two; when A opens and closes on one
\* line no line is added.
C28_OnlyTargetArray ==
    LET rd == Read(res.in)
        t  == TargetLine(res.in, res.arg)
        n  == Len(res.in)
    IN  (IsInsert /\ res.err = "nil" /\ res.arg # <<>>)
            => \A c \in ArraysAt(rd, res.arg, t) :
                  LET close == rd.conts[c].close
                  IN  /\ Len(res.out) >= n
                      /\ SubSeq(res.out, 1, t) = SubSeq(res.in, 1, t)
                      /\ SubSeq(res.out, Len(res.out) - (n - close), Len(res.out))
                            = SubSeq(res.in, close, n)
                      /\ (Len(res.out) > n) => t < close

(***************************************************************************)
(* Properties of the duplicate rejections of InsertJSONKeyValue            *)
(***************************************************************************)
\* C29: InsertJSONKeyValue fails with "already exists at root level" only if
\* the root object has a property named by the key, and with "already exists
\* in one or more array objects" only if some element object of the array
\* under the path has one; the key's text as a string value does not count.
C29_NoSpuriousDuplicate ==
    LET rd == Read(res.in)
    IN  /\ (IsInsert /\ res.err = "already exists at root level")
              => HasKey(rd, RootOf(rd), res.key)
        /\ (IsInsert /\ res.err = "already exists in one or more array objects")
              => \E e \in ElementsOf(rd, TargetOf(rd, res.arg)) : HasKey(rd, e, res.key)

(***************************************************************************)
(* Properties of the frame of WriteFile                                    *)
(***************************************************************************)
\* C30: WriteFile(P, data) affects the path P only.  No step of it changes a
\* path other than P and P.tmp; and when it returns, with success or with an
\* error, a file that was under P.tmp before the call is there unchanged, and
\* when there was none there is none: no temporary file of the call remains.
C30_WriteFileFrame ==
    [][ InWriteFile
            => LET path == req.files[idx]
               IN  /\ \A q \in FileNames \ {path, tempFile(path)} : fs'[q] = fs[q]
                   /\ idx' # idx => fs'[tempFile(path)] = cur'.oldTemp ]_vars

====
